---------------------------- MODULE Spec2Model ----------------------------
(***************************************************************************)
(* A model of gl1_api.py: the supply/staking summary server of the         *)
(* GenesisL1 dashboard.  Request threads (ThreadingHTTPServer) run         *)
(* Handler.do_GET -> get_cached_payload -> compute_api_payload against two *)
(* unlocked module-level dicts, _api_cache and _denom_cache.               *)
(*                                                                         *)
(* Python strings are strings (None, where the code treats it like "", is  *)
(* ""); Python ints are records [neg, mag] with mag the decimal digits     *)
(* without leading zeros, so that the arbitrary-precision arithmetic of    *)
(* the code is kept.                                                       *)
(***************************************************************************)
EXTENDS Integers, Sequences, FiniteSets, TLC

(***************************************************************************)
(* CONFIG (gl1_api.py lines 9-26)                                          *)
(***************************************************************************)
DISPLAY_DENOM == "L1"
DEFAULT_BASE_DENOM == "ul1"
DEFAULT_DECIMALS == 18
RETRIES == 1
CACHE_TTL_SEC == 60
DENOM_TTL_SEC == 6 * 60 * 60
OUT_MAX_FRAC == 18
\* for _ in range(30): the page cap of the metadata pagination
PAGE_CAP == 30

(***************************************************************************)
(* Python values                                                           *)
(***************************************************************************)
\* None, and a present value v, as a sequence of length 0 or 1
None == <<>>
Some(v) == <<v>>

Max(a, b) == IF a >= b THEN a ELSE b
Min(a, b) == IF a <= b THEN a ELSE b

\* s[-1] and s[:-1] of a string
Last(s) == SubSeq(s, Len(s), Len(s))
Front(s) == SubSeq(s, 1, Len(s) - 1)

DigitChars == <<"0", "1", "2", "3", "4", "5", "6", "7", "8", "9">>
IsDigit(c) == \E i \in 1..10 : DigitChars[i] = c
DigitVal(c) == CHOOSE d \in 0..9 : DigitChars[d + 1] = c
DigitChar(d) == DigitChars[d + 1]

RECURSIVE Zeros(_)
\* "0" * n
Zeros(n) == IF n <= 0 THEN "" ELSE "0" \o Zeros(n - 1)

\* c.lower() on the letters the model's strings use
LowerChar(c) ==
  IF c \notin {"A", "B", "E", "L", "M", "U", "X"} THEN c
  ELSE CASE c = "A" -> "a" [] c = "B" -> "b" [] c = "E" -> "e" [] c = "L" -> "l"
         [] c = "M" -> "m" [] c = "U" -> "u" [] c = "X" -> "x"

RECURSIVE Lower(_)
\* str.lower()
Lower(s) == IF s = "" THEN "" ELSE LowerChar(Head(s)) \o Lower(Tail(s))

IsSpace(c) == c \in {" ", "\t", "\n"}

RECURSIVE LStrip(_)
LStrip(s) == IF s # "" /\ IsSpace(Head(s)) THEN LStrip(Tail(s)) ELSE s

RECURSIVE RStrip(_)
RStrip(s) == IF s # "" /\ IsSpace(Last(s)) THEN RStrip(Front(s)) ELSE s

\* str.strip()
Strip(s) == RStrip(LStrip(s))

\* def _norm(s): return (s or "").strip().lower()
_norm(s) == Lower(Strip(s))

\* def _is_denom_base_like(denom, base_denom)
_is_denom_base_like(denom, base_denom) ==
  LET dn == _norm(denom)
      bd == _norm(base_denom)
      disp == _norm(DISPLAY_DENOM)
  IN  IF dn = "" THEN FALSE
      ELSE IF dn = bd THEN TRUE
      ELSE IF dn = disp THEN TRUE
      ELSE IF dn = "u" \o disp THEN TRUE
      ELSE IF dn = "el1" THEN TRUE
      ELSE FALSE

(***************************************************************************)
(* Python int: [neg |-> BOOLEAN, mag |-> digits], zero is [FALSE, "0"]     *)
(***************************************************************************)
RECURSIVE StripLeadingZeros(_)
StripLeadingZeros(ds) ==
  IF Len(ds) > 1 /\ Head(ds) = "0" THEN StripLeadingZeros(Tail(ds)) ELSE ds

MkInt(neg, ds) ==
  LET m == StripLeadingZeros(IF ds = "" THEN "0" ELSE ds)
  IN  [neg |-> neg /\ m # "0", mag |-> m]

IntZero == MkInt(FALSE, "0")

RECURSIVE AllDigits(_)
AllDigits(s) == s = "" \/ (IsDigit(Head(s)) /\ AllDigits(Tail(s)))

\* the digits of the literal int(s) reads: [+-]digits between blanks
Unsigned(s) ==
  LET t == Strip(s) IN IF t # "" /\ Head(t) \in {"-", "+"} THEN Tail(t) ELSE t

\* int(str(x)) returns (it raises ValueError otherwise)
IntParses(s) == Unsigned(s) # "" /\ AllDigits(Unsigned(s))

\* int(str(x))
IntParse(s) ==
  LET t == Strip(s) IN MkInt(t # "" /\ Head(t) = "-", Unsigned(s))

\* str(n)
IntStr(n) == IF n.neg THEN "-" \o n.mag ELSE n.mag

\* magnitudes: comparison, sum and difference, digit by digit
PadTo(ds, n) == Zeros(n - Len(ds)) \o ds

RECURSIVE DigitsLess(_, _)
\* a < b for digit strings of one length
DigitsLess(a, b) ==
  /\ a # ""
  /\ \/ DigitVal(Head(a)) < DigitVal(Head(b))
     \/ Head(a) = Head(b) /\ DigitsLess(Tail(a), Tail(b))

MagLess(a, b) == Len(a) < Len(b) \/ (Len(a) = Len(b) /\ DigitsLess(a, b))

RECURSIVE MagAddC(_, _, _)
\* a and b of one length; c the carry into the last digit
MagAddC(a, b, c) ==
  IF a = "" THEN (IF c = 0 THEN "" ELSE DigitChar(c))
  ELSE LET s == DigitVal(Last(a)) + DigitVal(Last(b)) + c
       IN  MagAddC(Front(a), Front(b), s \div 10) \o DigitChar(s % 10)

MagAdd(a, b) ==
  LET n == Max(Len(a), Len(b))
  IN  StripLeadingZeros(MagAddC(PadTo(a, n), PadTo(b, n), 0))

RECURSIVE MagSubC(_, _, _)
\* a >= b, of one length; c the borrow from the last digit
MagSubC(a, b, c) ==
  IF a = "" THEN ""
  ELSE LET d == DigitVal(Last(a)) - DigitVal(Last(b)) - c
       IN  MagSubC(Front(a), Front(b), IF d < 0 THEN 1 ELSE 0)
             \o DigitChar(IF d < 0 THEN d + 10 ELSE d)

MagSub(a, b) ==
  LET n == Max(Len(a), Len(b))
  IN  StripLeadingZeros(MagSubC(PadTo(a, n), PadTo(b, n), 0))

\* x + y
IntAdd(x, y) ==
  IF x.neg = y.neg THEN MkInt(x.neg, MagAdd(x.mag, y.mag))
  ELSE IF MagLess(x.mag, y.mag) THEN MkInt(y.neg, MagSub(y.mag, x.mag))
  ELSE MkInt(x.neg, MagSub(x.mag, y.mag))

\* a // 10**n and a % 10**n for a >= 0 (a magnitude), n >= 0
FloorDivPow10(m, n) ==
  IF Len(m) > n THEN SubSeq(m, 1, Len(m) - n) ELSE "0"

ModPow10(m, n) ==
  StripLeadingZeros(
    IF n = 0 THEN "0"
    ELSE IF Len(m) > n THEN SubSeq(m, Len(m) - n + 1, Len(m)) ELSE m)

(***************************************************************************)
(* DecimalCodec (gl1_api.py lines 70-113)                                  *)
(***************************************************************************)
RECURSIVE OnlyDigits(_)
\* "".join(ch for ch in s if ch.isdigit())
OnlyDigits(s) ==
  IF s = "" THEN ""
  ELSE (IF IsDigit(Head(s)) THEN Head(s) ELSE "") \o OnlyDigits(Tail(s))

RECURSIVE Find(_, _)
\* the index of the first c in s, or 0
Find(s, c) ==
  IF s = "" THEN 0
  ELSE IF Head(s) = c THEN 1
  ELSE LET r == Find(Tail(s), c) IN IF r = 0 THEN 0 ELSE 1 + r

\* a faulty parse: the fraction is not padded to 18 digits
ParseUnpadded(dec_str) ==
  LET s0 == Strip(IF dec_str = "" THEN "0" ELSE dec_str)
      neg == s0 # "" /\ Head(s0) = "-"
      s1 == IF neg THEN Tail(s0) ELSE s0
      dot == Find(s1, ".")
      whole0 == IF dot = 0 THEN s1 ELSE SubSeq(s1, 1, dot - 1)
      frac0 == IF dot = 0 THEN "" ELSE SubSeq(s1, dot + 1, Len(s1))
      whole == IF OnlyDigits(whole0) = "" THEN "0" ELSE OnlyDigits(whole0)
  IN  IF s0 = "" THEN IntZero ELSE MkInt(neg, whole \o OnlyDigits(frac0))

\* def _parse_dec_to_scaled18(dec_str)
_parse_dec_to_scaled18(dec_str) ==
  LET s0 == Strip(IF dec_str = "" THEN "0" ELSE dec_str)
      neg == s0 # "" /\ Head(s0) = "-"
      s1 == IF neg THEN Tail(s0) ELSE s0
      dot == Find(s1, ".")
      whole0 == IF dot = 0 THEN s1 ELSE SubSeq(s1, 1, dot - 1)
      frac0 == IF dot = 0 THEN "" ELSE SubSeq(s1, dot + 1, Len(s1))
      whole == IF OnlyDigits(whole0) = "" THEN "0" ELSE OnlyDigits(whole0)
      frac == OnlyDigits(frac0)
      frac18 == SubSeq(frac \o Zeros(18), 1, 18)
  IN  IF s0 = "" THEN IntZero
      \* int(whole) * 10**18 + int(frac18): frac18 has exactly 18 digits
      ELSE MkInt(neg, whole \o frac18)

RECURSIVE RStripZeros(_)
\* s.rstrip("0")
RStripZeros(s) == IF s # "" /\ Last(s) = "0" THEN RStripZeros(Front(s)) ELSE s

\* a faulty format: the remainder is not left-padded to the scale
FormatUnitsUnpadded(amount_int, decimals, max_frac) ==
  LET a == amount_int.mag
      frac == ModPow10(a, decimals)
      take == Max(0, Min(decimals, max_frac))
      frac_part == RStripZeros(SubSeq(frac, 1, Min(take, Len(frac))))
      s == FloorDivPow10(a, decimals) \o (IF frac_part # "" THEN "." \o frac_part ELSE "")
  IN  IF decimals <= 0 THEN (IF amount_int.neg THEN "-" ELSE "") \o a
      ELSE IF amount_int.neg THEN "-" \o s ELSE s

\* def _format_units(amount_int, decimals, max_frac)
_format_units(amount_int, decimals, max_frac) ==
  LET neg == amount_int.neg
      a == amount_int.mag
      whole == FloorDivPow10(a, decimals)
      frac == ModPow10(a, decimals)
      frac_full == PadTo(frac, decimals)
      take == Max(0, Min(decimals, max_frac))
      frac_cut == IF take < decimals THEN SubSeq(frac_full, 1, take)
                  ELSE frac_full
      frac_part == RStripZeros(frac_cut)
      s == whole \o (IF frac_part # "" THEN "." \o frac_part ELSE "")
  IN  IF decimals <= 0 THEN (IF neg THEN "-" ELSE "") \o a
      ELSE IF neg THEN "-" \o s ELSE s

(***************************************************************************)
(* The upstream LCD node.  What the chain holds is fixed for a run and is  *)
(* one of the scenarios below; every single HTTP attempt may still fail,   *)
(* and every answer may still come back malformed.                         *)
(***************************************************************************)
Coin(d, a) == [denom |-> d, amount |-> a]
Unit(d, e) == [denom |-> d, exponent |-> e]
Meta(b, disp, units) == [base |-> b, display |-> disp, denom_units |-> units]
Page(ms, nk) == [metadatas |-> ms, next_key |-> nk]

\* a metadata record of another token
MetaOther == Meta("x", "X", <<Unit("x", Some(0)), Unit("X", Some(8))>>)
\* the record of the mint denom, display unit "um6" with exponent 6
MetaUM == Meta("um", "um6", <<Unit("um", Some(0)), Unit("um6", Some(6))>>)
\* a record found by its display symbol only, display unit with exponent 0
MetaL1 == Meta("al1", "l1", <<Unit("L1", Some(0))>>)
\* a record whose display unit gives no integer exponent
MetaNoExp == Meta("ul1", "L1", <<Unit("L1", None)>>)

\* denoms_metadata listings, by pagination key
Keys == {"", "k1", "k2"}
OnePageMatch == [k \in Keys |-> Page(<<MetaOther, MetaUM>>, "")]
SecondPageMatch ==
  [k \in Keys |-> IF k = "" THEN Page(<<MetaOther>>, "k1") ELSE Page(<<MetaL1>>, "k2")]
ThreePagesNoMatch ==
  [k \in Keys |->
     Page(<<MetaOther>>, IF k = "" THEN "k1" ELSE IF k = "k1" THEN "k2" ELSE "")]
\* a cursor that never ends: "" -> k1 -> k2 -> k1 -> ...
CyclicNoMatch ==
  [k \in Keys |-> Page(<<MetaOther>>, IF k = "k1" THEN "k2" ELSE "k1")]
NoExponent == [k \in Keys |-> Page(<<MetaOther, MetaNoExp>>, "k1")]

Chains ==
  << [bond_denom |-> "ub", mint_denom |-> "UM", pages |-> OnePageMatch,
      supply |-> <<Coin("x", "7"), Coin("UM", "1500"), Coin("ub", "200")>>,
      bonded_tokens |-> "200", not_bonded_tokens |-> "50",
      community_pool |-> <<Coin("UM", "3.5"), Coin("x", "1")>>],
     [bond_denom |-> "ul1", mint_denom |-> "", pages |-> SecondPageMatch,
      supply |-> <<Coin("L1", "9"), Coin("ul1", "1500")>>,
      bonded_tokens |-> "200", not_bonded_tokens |-> "50",
      community_pool |-> <<Coin("ul1", "3.5")>>],
     [bond_denom |-> "", mint_denom |-> "", pages |-> CyclicNoMatch,
      supply |-> <<Coin("ul1", "1500")>>,
      bonded_tokens |-> "200", not_bonded_tokens |-> "",
      community_pool |-> <<Coin("ul1", "3.5"), Coin("el1", "0.5")>>],
     [bond_denom |-> "ub", mint_denom |-> "", pages |-> ThreePagesNoMatch,
      supply |-> <<Coin("ub", "1500")>>,
      bonded_tokens |-> "50", not_bonded_tokens |-> "50",
      community_pool |-> <<>>],
     [bond_denom |-> "ul1", mint_denom |-> "ul1", pages |-> NoExponent,
      supply |-> <<Coin("ul1", "200")>>,
      bonded_tokens |-> "50", not_bonded_tokens |-> "0",
      community_pool |-> <<Coin("ul1", "-1")>>] >>

\* the outcomes of the HTTP attempts of one _fetch_json call: the first
\* nfail attempts raise, the later ones decode to val
Attempts(nfail, val) ==
  [i \in 1..(RETRIES + 1) |-> IF i <= nfail THEN None ELSE Some(val)]

RECURSIVE FetchLoop(_, _)
\* a faulty loop: when the retries are used up the failure is swallowed and
\* an empty answer returned
FetchLoopDefault(att, i) ==
  IF att[i + 1] # None
  THEN [ok |-> TRUE, val |-> att[i + 1], attempts |-> i + 1, sleeps |-> i]
  ELSE IF i < RETRIES THEN FetchLoop(att, i + 1)
  ELSE [ok |-> TRUE, val |-> Some("{}"), attempts |-> i + 1, sleeps |-> i]

\* for i in range(retries + 1): try ... return / except: sleep or raise
FetchLoop(att, i) ==
  IF att[i + 1] # None
  THEN [ok |-> TRUE, val |-> att[i + 1], attempts |-> i + 1, sleeps |-> i]
  ELSE IF i < RETRIES THEN FetchLoop(att, i + 1)
  ELSE [ok |-> FALSE, val |-> None, attempts |-> i + 1, sleeps |-> i]

\* a faulty fetch: a failed first attempt is followed by two more attempts
\* instead of one
FetchJsonTwoRetries(att) ==
  LET r == FetchLoop(att, 0)
  IN  IF r.attempts <= 1 THEN r
      ELSE [r EXCEPT !.attempts = @ + 1, !.sleeps = @ + 1]

\* def _fetch_json(url, timeout, retries, backoff)
_fetch_json(att) == FetchLoop(att, 0)

\* the JSON a fetch returned
Json(f) == f.val[1]

(***************************************************************************)
(* DenomResolver: the three best-effort steps of                           *)
(* _detect_base_denom_and_decimals (lines 133-177)                         *)
(***************************************************************************)
\* a decoded params answer; bad: not the dict of dicts the code reads
ParamsJson(bad, d) == [bad |-> bad, denom |-> d]

\* try: sp = _fetch_json(...); bd = sp.get("params", {}).get("bond_denom")
\*      if bd: base = bd
\* except Exception: pass                 (the same for mp / mint_denom)
ParamsRaised(f) == ~f.ok \/ Json(f).bad
\* a faulty step: a failure falls back to the hardcoded default
ParamsStepResets(base, f) ==
  IF ParamsRaised(f) THEN DEFAULT_BASE_DENOM
  ELSE IF Json(f).denom # "" THEN Json(f).denom
  ELSE base

\* a faulty step: only the default is ever overwritten, so the first answer
\* wins over the later one
ParamsStepFirstWins(base, f) ==
  IF ParamsRaised(f) THEN base
  ELSE IF Json(f).denom # "" /\ base = DEFAULT_BASE_DENOM THEN Json(f).denom
  ELSE base

ParamsStep(base, f) ==
  IF ParamsRaised(f) THEN base
  ELSE IF Json(f).denom # "" THEN Json(f).denom
  ELSE base

RECURSIVE FirstBase(_, _)
\* next((m for m in metas if _norm(m.get("base")) == _norm(base)), None)
FirstBase(metas, base) ==
  IF metas = <<>> THEN None
  ELSE IF _norm(Head(metas).base) = _norm(base) THEN Some(Head(metas))
  ELSE FirstBase(Tail(metas), base)

RECURSIVE FirstDisplay(_)
\* next((m for m in metas if _norm(m.get("display")) == _norm(DISPLAY_DENOM)), None)
FirstDisplay(metas) ==
  IF metas = <<>> THEN None
  ELSE IF _norm(Head(metas).display) = _norm(DISPLAY_DENOM) THEN Some(Head(metas))
  ELSE FirstDisplay(Tail(metas))

\* lines 161-163: by base first, by display symbol otherwise
FindMeta(metas, base) ==
  LET found == FirstBase(metas, base)
  IN  IF found # None THEN found ELSE FirstDisplay(metas)

\* the HTTP attempts that fail in the i-th page fetch of one pagination
PageFails(nf, i) == IF i = nf.at THEN nf.n ELSE nf.rest

RECURSIVE PageLoop(_, _, _, _, _, _)
\* a faulty loop: the cap is tested one iteration late
PageLoopOneMore(pages, base, nf, i, next_key, att) ==
  IF i > PAGE_CAP THEN [raised |-> FALSE, found |-> None, n |-> i, attempts |-> att]
  ELSE
    LET f == _fetch_json(Attempts(PageFails(nf, i + 1), pages[next_key]))
        a == att + f.attempts
    IN  IF ~f.ok \/ nf.bad = i + 1
        THEN [raised |-> TRUE, found |-> None, n |-> i + 1, attempts |-> a]
        ELSE LET found == FindMeta(Json(f).metadatas, base)
                 nk == Json(f).next_key
             IN  IF found # None
                 THEN [raised |-> FALSE, found |-> found, n |-> i + 1, attempts |-> a]
                 ELSE IF nk = ""
                 THEN [raised |-> FALSE, found |-> None, n |-> i + 1, attempts |-> a]
                 ELSE PageLoop(pages, base, nf, i + 1, nk, a)

\* for _ in range(30): ... (lines 155-168); i iterations are done, att
\* HTTP attempts were made
PageLoop(pages, base, nf, i, next_key, att) ==
  IF i >= PAGE_CAP THEN [raised |-> FALSE, found |-> None, n |-> i, attempts |-> att]
  ELSE
    LET f == _fetch_json(Attempts(PageFails(nf, i + 1), pages[next_key]))
        a == att + f.attempts
    IN  IF ~f.ok \/ nf.bad = i + 1
        THEN [raised |-> TRUE, found |-> None, n |-> i + 1, attempts |-> a]
        ELSE LET found == FindMeta(Json(f).metadatas, base)
                 nk == Json(f).next_key
             IN  IF found # None
                 THEN [raised |-> FALSE, found |-> found, n |-> i + 1, attempts |-> a]
                 ELSE IF nk = ""
                 THEN [raised |-> FALSE, found |-> None, n |-> i + 1, attempts |-> a]
                 ELSE PageLoop(pages, base, nf, i + 1, nk, a)

RECURSIVE FirstUnit(_, _)
\* next((u for u in denom_units if _norm(u.get("denom")) == disp), None)
FirstUnit(units, disp) ==
  IF units = <<>> THEN None
  ELSE IF _norm(Head(units).denom) = disp THEN Some(Head(units))
  ELSE FirstUnit(Tail(units), disp)

\* lines 170-175: the exponent of the display unit of the record found
FoundDecimals(found, dec) ==
  IF found = None THEN dec
  ELSE LET m == found[1]
           disp == _norm(IF m.display # "" THEN m.display ELSE DISPLAY_DENOM)
           du == FirstUnit(m.denom_units, disp)
       IN  IF du # None /\ du[1].exponent # None THEN du[1].exponent[1] ELSE dec

\* which HTTP attempts of a pagination fail (at: the page fetch whose n first
\* attempts fail; rest: the failing attempts of every other page fetch), and
\* which page comes back malformed
PageFailures ==
  {[at |-> a, n |-> RETRIES + 1, rest |-> 0, bad |-> 0] : a \in {0, 1, 2, PAGE_CAP}}
    \cup {[at |-> 0, n |-> 0, rest |-> 1, bad |-> 0]}
    \cup {[at |-> 0, n |-> 0, rest |-> 0, bad |-> b] : b \in {1, 2}}

\* the values base takes: the default and the denoms the params answers name
Bases ==
  ({DEFAULT_BASE_DENOM}
     \cup {Chains[c].bond_denom : c \in 1..Len(Chains)}
     \cup {Chains[c].mint_denom : c \in 1..Len(Chains)}) \ {""}

\* the loop of lines 155-168 on the listing of chain c, for every base and every
\* way to fail (the loop reads nothing else)
Pagination ==
  [c \in 1..Len(Chains), base \in Bases, nf \in PageFailures |->
     PageLoop(Chains[c].pages, base, nf, 0, "", 0)]

\* lines 151-177: the whole try block, against the listing of chain c
MetadataStep(c, base, dec, nf) ==
  LET r == Pagination[c, base, nf]
  IN  [raised |-> r.raised, n |-> r.n, attempts |-> r.attempts,
       found |-> r.found # None,
       dec |-> IF r.raised THEN dec ELSE FoundDecimals(r.found, dec)]

(***************************************************************************)
(* SupplyAggregator (lines 185-215)                                        *)
(***************************************************************************)
RECURSIVE ByDenom(_, _)
\* what /supply/by_denom?denom=base answers: the coin of exactly that denom
ByDenom(supply, base) ==
  IF supply = <<>> THEN Coin(base, "0")
  ELSE IF Head(supply).denom = base THEN Head(supply)
  ELSE ByDenom(Tail(supply), base)

\* the decoded by_denom answer in the shapes the code meets:
\*   "coin"     {"amount": {"denom": d, "amount": a}}
\*   "noamount" {} or {"amount": null}
\*   "nested"   {"amount": {"denom": d}}        (no inner amount)
\*   "notdict"  a JSON value that is no object
SupplyJson(shape, coin) == [shape |-> shape, amount |-> coin.amount]

\* lines 189-190, after a fetch that returned: the int, or raised
DirectAmount(j) ==
  IF j.shape = "notdict" THEN [raised |-> TRUE, val |-> IntZero]
  ELSE IF j.shape = "noamount" THEN [raised |-> FALSE, val |-> IntParse("0")]
  ELSE IF j.shape = "nested" \/ j.amount = ""
  \* amt is the inner dict itself: int(str(amt)) raises ValueError
  THEN [raised |-> TRUE, val |-> IntZero]
  ELSE IF IntParses(j.amount) THEN [raised |-> FALSE, val |-> IntParse(j.amount)]
  ELSE [raised |-> TRUE, val |-> IntZero]

\* int(str(x or "0"))
Or0(x) == IF x = "" THEN "0" ELSE x

RECURSIVE ScanSupply(_, _)
\* lines 194-197: the first coin whose denom is base-like
ScanSupply(supply, base) ==
  IF supply = <<>> THEN [raised |-> FALSE, val |-> IntZero]
  ELSE IF _is_denom_base_like(Head(supply).denom, base)
  THEN IF IntParses(Or0(Head(supply).amount))
       THEN [raised |-> FALSE, val |-> IntParse(Or0(Head(supply).amount))]
       ELSE [raised |-> TRUE, val |-> IntZero]
  ELSE ScanSupply(Tail(supply), base)

\* def _get_supply_raw(base_denom): f the by_denom fetch, g the fetch of the
\* full supply (made only when the first path raised)
_get_supply_raw(base_denom, f, g) ==
  LET d == IF f.ok THEN DirectAmount(Json(f)) ELSE [raised |-> TRUE, val |-> IntZero]
  IN  IF ~d.raised THEN [raised |-> FALSE, val |-> d.val, path |-> "direct"]
      ELSE IF ~g.ok \/ Json(g).bad THEN [raised |-> TRUE, val |-> IntZero, path |-> "scan"]
      ELSE LET r == ScanSupply(Json(g).supply, base_denom)
           IN  [raised |-> r.raised, val |-> r.val, path |-> "scan"]

RECURSIVE SumPool(_, _, _)
\* lines 204-207: total += _parse_dec_to_scaled18(c["amount"])
SumPool(coins, base, total) ==
  IF coins = <<>> THEN total
  ELSE SumPool(Tail(coins), base,
               IF _is_denom_base_like(Head(coins).denom, base)
               THEN IntAdd(total, _parse_dec_to_scaled18(Head(coins).amount))
               ELSE total)

\* def _get_community_pool_scaled18(base_denom)
_get_community_pool_scaled18(base_denom, f) ==
  IF ~f.ok \/ Json(f).bad THEN [raised |-> TRUE, val |-> IntZero]
  ELSE [raised |-> FALSE, val |-> SumPool(Json(f).community_pool, base_denom, IntZero)]

\* a faulty staked total: a pool that cannot be fetched counts as 0
StakedZeroWhenDown(f) ==
  IF ~f.ok THEN [raised |-> FALSE, val |-> IntZero]
  ELSE IF Json(f).bad THEN [raised |-> TRUE, val |-> IntZero]
  ELSE IF IntParses(Or0(Json(f).bonded_tokens)) /\ IntParses(Or0(Json(f).not_bonded_tokens))
  THEN [raised |-> FALSE,
        val |-> IntAdd(IntParse(Or0(Json(f).bonded_tokens)),
                       IntParse(Or0(Json(f).not_bonded_tokens)))]
  ELSE [raised |-> TRUE, val |-> IntZero]

\* def _get_total_staked_raw()
_get_total_staked_raw(f) ==
  IF ~f.ok \/ Json(f).bad THEN [raised |-> TRUE, val |-> IntZero]
  ELSE LET b == Or0(Json(f).bonded_tokens)
           n == Or0(Json(f).not_bonded_tokens)
       IN  IF IntParses(b) /\ IntParses(n)
           THEN [raised |-> FALSE, val |-> IntAdd(IntParse(b), IntParse(n))]
           ELSE [raised |-> TRUE, val |-> IntZero]

\* lines 230-236: the dict compute_api_payload returns
BuildPayload(supply_raw, staked_raw, comm_scaled18, decimals) ==
  [circulating_supply |-> _format_units(supply_raw, decimals, OUT_MAX_FRAC),
   circulating_supply_raw |-> IntStr(supply_raw),
   community_pool |-> _format_units(comm_scaled18, decimals + 18, OUT_MAX_FRAC),
   total_staked |-> _format_units(staked_raw, decimals, OUT_MAX_FRAC)]

(***************************************************************************)
(* State                                                                   *)
(***************************************************************************)
VARIABLES
  clock,          \* the latest value time.time() returned
  chain,          \* which of Chains the node serves
  _api_cache,     \* line 183: {"ts", "data"}
  _denom_cache,   \* lines 119-123: {"ts", "base_denom", "decimals"}
  pc,             \* where each request thread stands
  loc,            \* the local variables of each request thread
  resp,           \* the response a thread has just sent
  fuel,           \* what the run may still do: requests, clock moves, faults
  denom_commits,  \* history: every (base_denom, decimals) _denom_cache held
  probe           \* one function applied on its own: its input and its result

vars == <<clock, chain, _api_cache, _denom_cache, pc, loc, resp, fuel,
          denom_commits, probe>>

Threads == {1, 2}

\* a run of concurrent requests: requests, and either moves of the clock by
\* half a payload TTL or upstream answers that fail
MaxCalls == 3
MaxShortTicks == 2
MaxFaults == 2
\* a run of requests one after the other: requests, moves of the clock by
\* half a payload TTL or by a denom TTL, upstream answers that fail
MaxSeqCalls == 2
MaxSeqTicks == 2
MaxSeqFaults == 3
\* a run of concurrent requests in which the HTTP attempts of thread 1 are
\* metered: requests and upstream answers that fail
MaxLiveCalls == 2
MaxLiveFaults == 1

\* time.time() at the first request: seconds since 1970, beyond both TTLs
StartClock == 10 * DENOM_TTL_SEC
TickSec == CACHE_TTL_SEC \div 2

\* the values a call of time.time() may return (the clock does not run
\* back), with the fuel left after it
TimeNow ==
  {[t |-> clock, fuel |-> fuel]}
    \cup (IF fuel.ticks > 0
          THEN {[t |-> clock + d, fuel |-> [fuel EXCEPT !.ticks = @ - 1]] :
                  d \in fuel.by}
          ELSE {})

\* an upstream fault: a fetch that raises after its retries, or an answer
\* that is malformed
Faulty(n) == fuel.faults >= n /\ fuel' = [fuel EXCEPT !.faults = @ - n]

NoLocals ==
  [now |-> 0, pre |-> None, seen |-> None, read_ts |-> 0,
   dnow |-> 0, base0 |-> "", dec0 |-> None, base |-> "", dec |-> None,
   sp_st |-> "-", mp_st |-> "-", meta_st |-> "-", npages |-> 0, origin |-> "-",
   supply_raw |-> None, staked_raw |-> None, comm |-> None,
   payload |-> None, ret |-> "-", err |-> "-", down |-> "-", path |-> "",
   tries |-> 0]

NoResponse == [status |-> 0, body |-> None, error |-> "-"]

\* no function is applied on its own while the server runs
NoProbe == [fn |-> "-", arg |-> None, src |-> None, out |-> None]

InitCommon ==
  /\ clock = StartClock
  /\ _api_cache = [ts |-> 0, data |-> None]
  /\ _denom_cache = [ts |-> 0, base_denom |-> DEFAULT_BASE_DENOM,
                     decimals |-> DEFAULT_DECIMALS]
  /\ pc = [t \in Threads |-> "idle"]
  /\ loc = [t \in Threads |-> NoLocals]
  /\ resp = [t \in Threads |-> NoResponse]
  /\ denom_commits = {<<DEFAULT_BASE_DENOM, DEFAULT_DECIMALS>>}

Set(t, r) == loc' = [loc EXCEPT ![t] = r]
Goto(t, l) == pc' = [pc EXCEPT ![t] = l]

\* what get_cached_payload keeps while compute_api_payload's callees return
\* (down: the fetch of this request that failed after its retries)
Keep(l) ==
  [NoLocals EXCEPT !.now = l.now, !.pre = l.pre, !.seen = l.seen, !.down = l.down,
                   !.tries = l.tries]

\* the HTTP attempts a request has made so far, counted for the threads
\* the run meters
Metered(t, n, k) == IF t \in fuel.meter THEN n + k ELSE n

(***************************************************************************)
(* Handler.do_GET (lines 248-275)                                          *)
(***************************************************************************)
ApiPath == "/api.json"
Paths == {"/api.json", "/api.json?x=1", "/", "/api?x=/api.json"}

\* a request arrives: the server has parsed the request line into self.path
\* and calls do_GET on the thread of the request
DoGET(t) ==
  /\ pc[t] = "idle"
  /\ fuel.calls > 0
  /\ fuel' = [fuel EXCEPT !.calls = @ - 1]
  /\ \E path \in Paths : Set(t, [loc[t] EXCEPT !.path = path])
  /\ Goto(t, "route")
  /\ UNCHANGED <<clock, chain, probe, _api_cache, _denom_cache, resp, denom_commits>>

\* a faulty test of the path: the query string is not cut off
WholePath(path) == path

\* path.split("?")[0]
BeforeQuery(path) ==
  IF Find(path, "?") = 0 THEN path ELSE SubSeq(path, 1, Find(path, "?") - 1)

\* lines 249-254: the 404, or the entry into the try block of line 256
Route(t) ==
  /\ pc[t] = "route"
  /\ IF BeforeQuery(loc[t].path) # ApiPath
     THEN /\ resp' = [resp EXCEPT ![t] = [status |-> 404, body |-> None, error |-> "-"]]
          /\ Goto(t, "sent")
     ELSE /\ Goto(t, "gcp_now")
          /\ UNCHANGED resp
  /\ Set(t, NoLocals)
  /\ UNCHANGED <<clock, chain, probe, _api_cache, _denom_cache, fuel, denom_commits>>

\* lines 258-275: the 200 with the payload, or the 503 with the message
Respond(t) ==
  /\ pc[t] = "respond"
  /\ resp' = [resp EXCEPT ![t] =
       IF loc[t].ret = "raised"
       THEN [status |-> 503, body |-> None, error |-> loc[t].err]
       ELSE [status |-> 200, body |-> loc[t].payload, error |-> "-"]]
  /\ Goto(t, "sent")
  /\ Set(t, NoLocals)
  /\ UNCHANGED <<clock, chain, probe, _api_cache, _denom_cache, fuel, denom_commits>>

\* do_GET returns; the thread is free for the next request
Finish(t) ==
  /\ pc[t] = "sent"
  /\ resp' = [resp EXCEPT ![t] = NoResponse]
  /\ Goto(t, "idle")
  /\ UNCHANGED <<clock, chain, probe, _api_cache, _denom_cache, loc, fuel, denom_commits>>

\* a faulty exception path: the failed refresh restarts the age of the entry
RaiseResetsAge(t, l, what) ==
  /\ Goto(t, "respond")
  /\ Set(t, [Keep(l) EXCEPT !.ret = "raised", !.err = what])
  /\ _api_cache' = [_api_cache EXCEPT !.ts = l.now]

\* an exception leaves compute_api_payload and get_cached_payload: line 244
\* is not reached, _api_cache stays as it is
Raise(t, l, what) ==
  /\ Goto(t, "respond")
  /\ Set(t, [Keep(l) EXCEPT !.ret = "raised", !.err = what])
  /\ UNCHANGED _api_cache

(***************************************************************************)
(* get_cached_payload (lines 238-244)                                      *)
(***************************************************************************)
\* line 239: now = time.time()
GcpNow(t) ==
  /\ pc[t] = "gcp_now"
  /\ \E n \in TimeNow :
       /\ clock' = n.t
       /\ fuel' = n.fuel
       /\ Set(t, [loc[t] EXCEPT !.now = n.t, !.pre = Some(_api_cache)])
  /\ Goto(t, "gcp_data")
  /\ UNCHANGED <<chain, probe, _api_cache, _denom_cache, resp, denom_commits>>

\* line 240, left operand: _api_cache["data"] is not None
GcpData(t) ==
  /\ pc[t] = "gcp_data"
  /\ Goto(t, IF _api_cache.data # None THEN "gcp_ts" ELSE "det_now")
  /\ UNCHANGED <<clock, chain, probe, _api_cache, _denom_cache, loc, resp, fuel,
                 denom_commits>>

\* a faulty freshness test: an entry counts as stale from half its TTL on
FreshHalfTtl(now, ts, ttl) == 2 * (now - ts) < ttl

\* the freshness test of lines 127 and 240
Fresh(now, ts, ttl) == now - ts < ttl

\* line 240, right operand: now - _api_cache["ts"] < CACHE_TTL_SEC
GcpTs(t) ==
  /\ pc[t] = "gcp_ts"
  /\ Set(t, [loc[t] EXCEPT !.seen = Some(_api_cache)])
  /\ Goto(t, IF Fresh(loc[t].now, _api_cache.ts, CACHE_TTL_SEC)
             THEN "gcp_ret" ELSE "det_now")
  /\ UNCHANGED <<clock, chain, probe, _api_cache, _denom_cache, resp, fuel,
                 denom_commits>>

\* line 241: return _api_cache["data"]
GcpReturnCached(t) ==
  /\ pc[t] = "gcp_ret"
  /\ Set(t, [loc[t] EXCEPT !.payload = _api_cache.data, !.ret = "cached",
                           !.read_ts = _api_cache.ts])
  /\ Goto(t, "respond")
  /\ UNCHANGED <<clock, chain, probe, _api_cache, _denom_cache, resp, fuel,
                 denom_commits>>

\* the dict a successful computation stores
ApiEntry(now, payload) == [ts |-> now, data |-> payload]

\* lines 243-244: _api_cache.update({"ts": now, "data": payload}); return payload
GcpCommit(t) ==
  /\ pc[t] = "gcp_commit"
  /\ _api_cache' = ApiEntry(loc[t].now, loc[t].payload)
  /\ Set(t, [loc[t] EXCEPT !.ret = "computed"])
  /\ Goto(t, "respond")
  /\ UNCHANGED <<clock, chain, probe, _denom_cache, resp, fuel, denom_commits>>

(***************************************************************************)
(* _detect_base_denom_and_decimals (lines 125-180)                         *)
(***************************************************************************)
\* return base, dec: the locals of _detect_base_denom_and_decimals end here,
\* compute_api_payload keeps the pair (line 218)
DetectReturn(l, base, dec, origin) ==
  [Keep(l) EXCEPT !.base = base, !.dec = Some(dec), !.origin = origin]

\* line 126: now = time.time()
DetNow(t) ==
  /\ pc[t] = "det_now"
  /\ \E n \in TimeNow :
       /\ clock' = n.t
       /\ fuel' = n.fuel
       /\ Set(t, [loc[t] EXCEPT !.dnow = n.t])
  /\ Goto(t, "det_ts")
  /\ UNCHANGED <<chain, probe, _api_cache, _denom_cache, resp, denom_commits>>

\* line 127: if now - _denom_cache["ts"] < DENOM_TTL_SEC
DetTs(t) ==
  /\ pc[t] = "det_ts"
  /\ Goto(t, IF Fresh(loc[t].dnow, _denom_cache.ts, DENOM_TTL_SEC)
             THEN "det_rb" ELSE "det_b0")
  /\ UNCHANGED <<clock, chain, probe, _api_cache, _denom_cache, loc, resp, fuel,
                 denom_commits>>

\* line 128, first element: _denom_cache["base_denom"]
DetReadBase(t) ==
  /\ pc[t] = "det_rb"
  /\ Set(t, [loc[t] EXCEPT !.base = _denom_cache.base_denom])
  /\ Goto(t, "det_rd")
  /\ UNCHANGED <<clock, chain, probe, _api_cache, _denom_cache, resp, fuel,
                 denom_commits>>

\* line 128, second element, and the return
DetReadDecimals(t) ==
  /\ pc[t] = "det_rd"
  /\ Set(t, DetectReturn(loc[t], loc[t].base, _denom_cache.decimals, "cached"))
  /\ Goto(t, "supply")
  /\ UNCHANGED <<clock, chain, probe, _api_cache, _denom_cache, resp, fuel,
                 denom_commits>>

\* x or default, for a string and for an int
StrOr(x, d) == IF x # "" THEN x ELSE d
IntOr(x, d) == IF x # 0 THEN x ELSE d

\* line 130: base = _denom_cache["base_denom"] or DEFAULT_BASE_DENOM
DetBaseline0(t) ==
  /\ pc[t] = "det_b0"
  /\ Set(t, [loc[t] EXCEPT
       !.base = StrOr(_denom_cache.base_denom, DEFAULT_BASE_DENOM),
       !.base0 = _denom_cache.base_denom])
  /\ Goto(t, "det_b1")
  /\ UNCHANGED <<clock, chain, probe, _api_cache, _denom_cache, resp, fuel,
                 denom_commits>>

\* line 131: dec = _denom_cache["decimals"] or DEFAULT_DECIMALS
DetBaseline1(t) ==
  /\ pc[t] = "det_b1"
  /\ Set(t, [loc[t] EXCEPT
       !.dec = Some(IntOr(_denom_cache.decimals, DEFAULT_DECIMALS)),
       !.dec0 = Some(_denom_cache.decimals)])
  /\ Goto(t, "det_staking")
  /\ UNCHANGED <<clock, chain, probe, _api_cache, _denom_cache, resp, fuel,
                 denom_commits>>

\* one _fetch_json call as the upstream decides it: the HTTP attempts that
\* fail, and whether the answer decoded is malformed
FetchOutcomes ==
  {[nfail |-> n, bad |-> FALSE] : n \in 0..(RETRIES + 1)}
    \cup {[nfail |-> 0, bad |-> TRUE]}
NoFault == [nfail |-> 0, bad |-> FALSE]
IsFault(o) == o.nfail > RETRIES \/ o.bad
Faults(o) == IF IsFault(o) THEN 1 ELSE 0

\* lines 133-140: staking params -> bond denom
DetStaking(t) ==
  /\ pc[t] = "det_staking"
  /\ \E o \in FetchOutcomes :
       LET f == _fetch_json(Attempts(o.nfail, ParamsJson(o.bad, Chains[chain].bond_denom)))
       IN  /\ Faulty(Faults(o))
           /\ Set(t, [loc[t] EXCEPT !.base = ParamsStep(loc[t].base, f),
                                    !.sp_st = IF ParamsRaised(f) THEN "raised" ELSE "ok",
                                    !.tries = Metered(t, @, f.attempts)])
  /\ Goto(t, "det_mint")
  /\ UNCHANGED <<clock, chain, probe, _api_cache, _denom_cache, resp, denom_commits>>

\* lines 142-149: mint params -> mint denom
DetMint(t) ==
  /\ pc[t] = "det_mint"
  /\ \E o \in FetchOutcomes :
       LET f == _fetch_json(Attempts(o.nfail, ParamsJson(o.bad, Chains[chain].mint_denom)))
       IN  /\ Faulty(Faults(o))
           /\ Set(t, [loc[t] EXCEPT !.base = ParamsStep(loc[t].base, f),
                                    !.mp_st = IF ParamsRaised(f) THEN "raised" ELSE "ok",
                                    !.tries = Metered(t, @, f.attempts)])
  /\ Goto(t, "det_meta")
  /\ UNCHANGED <<clock, chain, probe, _api_cache, _denom_cache, resp, denom_commits>>

\* lines 151-177: denom metadata -> display exponent
DetMetadata(t) ==
  /\ pc[t] = "det_meta"
  /\ \E nf \in PageFailures :
       LET m == MetadataStep(chain, loc[t].base, loc[t].dec[1], nf)
       IN  /\ Faulty(IF m.raised THEN 1 ELSE 0)
           /\ Set(t, [loc[t] EXCEPT !.dec = Some(m.dec), !.npages = m.n,
                                    !.meta_st = IF m.raised THEN "raised"
                                                ELSE IF m.found THEN "found" ELSE "none",
                                    !.tries = Metered(t, @, m.attempts)])
  /\ Goto(t, "det_commit")
  /\ UNCHANGED <<clock, chain, probe, _api_cache, _denom_cache, resp, denom_commits>>

\* a faulty commit: the pair is stored without the time of the resolve
DenomEntryUnstamped(now, base, dec) == [ts |-> 0, base_denom |-> base, decimals |-> dec]

\* the dict a resolve stores
DenomEntry(now, base, dec) == [ts |-> now, base_denom |-> base, decimals |-> dec]

\* lines 179-180: _denom_cache.update({...}); return base, dec
DetCommit(t) ==
  /\ pc[t] = "det_commit"
  /\ _denom_cache' = DenomEntry(loc[t].dnow, loc[t].base, loc[t].dec[1])
  /\ denom_commits' = denom_commits \cup {<<loc[t].base, loc[t].dec[1]>>}
  /\ Set(t, DetectReturn(loc[t], loc[t].base, loc[t].dec[1], "resolved"))
  /\ Goto(t, "supply")
  /\ UNCHANGED <<clock, chain, probe, _api_cache, resp, fuel>>

(***************************************************************************)
(* compute_api_payload (lines 217-236)                                     *)
(***************************************************************************)
\* the by_denom fetch: the attempts that fail and the shape of the answer
SupplyOutcomes ==
  {[nfail |-> n, shape |-> "coin"] : n \in 0..(RETRIES + 1)}
    \cup {[nfail |-> 0, shape |-> sh] : sh \in {"noamount", "nested", "notdict"}}

\* line 220: supply_raw = _get_supply_raw(base)
Supply(t) ==
  /\ pc[t] = "supply"
  /\ \E o1 \in SupplyOutcomes :
       LET f == _fetch_json(Attempts(o1.nfail,
                  SupplyJson(o1.shape, ByDenom(Chains[chain].supply, loc[t].base))))
           direct == f.ok /\ ~DirectAmount(Json(f)).raised
       IN  \* the full supply is fetched only when the first path raised
           \E o2 \in IF direct THEN {NoFault} ELSE FetchOutcomes :
             LET g == _fetch_json(Attempts(o2.nfail,
                        [bad |-> o2.bad, supply |-> Chains[chain].supply]))
                 r == _get_supply_raw(loc[t].base, f, g)
                 l == [loc[t] EXCEPT !.tries =
                         Metered(t, @, f.attempts + (IF direct THEN 0 ELSE g.attempts))]
             IN  /\ Faulty((IF direct THEN 0 ELSE 1) + Faults(o2))
                 /\ IF r.raised THEN Raise(t, l, "supply")
                    ELSE /\ Set(t, [l EXCEPT !.supply_raw = Some(r.val)])
                         /\ Goto(t, "staked")
                         /\ UNCHANGED _api_cache
  /\ UNCHANGED <<clock, chain, probe, _denom_cache, resp, denom_commits>>

\* line 221: staked_raw = _get_total_staked_raw()
Staked(t) ==
  /\ pc[t] = "staked"
  /\ \E o \in FetchOutcomes :
       LET f == _fetch_json(Attempts(o.nfail,
                  [bad |-> o.bad, bonded_tokens |-> Chains[chain].bonded_tokens,
                   not_bonded_tokens |-> Chains[chain].not_bonded_tokens]))
           r == _get_total_staked_raw(f)
           l == [loc[t] EXCEPT !.down = IF f.ok THEN @ ELSE "staking/pool",
                               !.tries = Metered(t, @, f.attempts)]
       IN  /\ Faulty(Faults(o))
           /\ IF r.raised THEN Raise(t, l, "staked")
              ELSE /\ Set(t, [l EXCEPT !.staked_raw = Some(r.val)])
                   /\ Goto(t, "community")
                   /\ UNCHANGED _api_cache
  /\ UNCHANGED <<clock, chain, probe, _denom_cache, resp, denom_commits>>

\* line 222: comm_scaled18 = _get_community_pool_scaled18(base)
CommunityPool(t) ==
  /\ pc[t] = "community"
  /\ \E o \in FetchOutcomes :
       LET f == _fetch_json(Attempts(o.nfail,
                  [bad |-> o.bad, community_pool |-> Chains[chain].community_pool]))
           r == _get_community_pool_scaled18(loc[t].base, f)
           l == [loc[t] EXCEPT !.tries = Metered(t, @, f.attempts)]
       IN  /\ Faulty(Faults(o))
           /\ IF r.raised THEN Raise(t, l, "community")
              ELSE /\ Set(t, [l EXCEPT !.comm = Some(r.val)])
                   /\ Goto(t, "build")
                   /\ UNCHANGED _api_cache
  /\ UNCHANGED <<clock, chain, probe, _denom_cache, resp, denom_commits>>

\* lines 225-236: the payload; back in get_cached_payload at line 243
ComputeReturn(t) ==
  /\ pc[t] = "build"
  /\ Set(t, [Keep(loc[t]) EXCEPT !.payload =
       Some(BuildPayload(loc[t].supply_raw[1], loc[t].staked_raw[1],
                         loc[t].comm[1], loc[t].dec[1]))])
  /\ Goto(t, "gcp_commit")
  /\ UNCHANGED <<clock, chain, probe, _api_cache, _denom_cache, resp, fuel,
                 denom_commits>>

(***************************************************************************)
(* The server                                                              *)
(***************************************************************************)
Step(t) ==
  \/ Route(t)
  \/ GcpNow(t) \/ GcpData(t) \/ GcpTs(t) \/ GcpReturnCached(t) \/ GcpCommit(t)
  \/ DetNow(t) \/ DetTs(t) \/ DetReadBase(t) \/ DetReadDecimals(t)
  \/ DetBaseline0(t) \/ DetBaseline1(t)
  \/ DetStaking(t) \/ DetMint(t) \/ DetMetadata(t) \/ DetCommit(t)
  \/ Supply(t) \/ Staked(t) \/ CommunityPool(t) \/ ComputeReturn(t)
  \/ Respond(t) \/ Finish(t)

\* ThreadingHTTPServer: every request runs on a thread of its own
Init ==
  /\ InitCommon
  /\ probe = NoProbe
  /\ chain = 1
  /\ fuel \in {[calls |-> MaxCalls, ticks |-> MaxShortTicks, by |-> {TickSec},
                faults |-> 0, meter |-> {}],
               [calls |-> MaxCalls, ticks |-> 0, by |-> {TickSec},
                faults |-> MaxFaults, meter |-> {}]}
Next == \E t \in Threads : DoGET(t) \/ Step(t)
Spec == Init /\ [][Next]_vars

\* requests that arrive one after the other: each is served to its end before
\* the next arrives, so one request thread stands for all of them
DoGETSeq(t) == t = 1 /\ DoGET(t)
InitSeq ==
  /\ InitCommon
  /\ probe = NoProbe
  /\ chain \in 1..Len(Chains)
  /\ fuel = [calls |-> MaxSeqCalls, ticks |-> MaxSeqTicks,
             by |-> {TickSec, DENOM_TTL_SEC}, faults |-> MaxSeqFaults,
             meter |-> {}]
NextSeq == \E t \in Threads : DoGETSeq(t) \/ Step(t)
SpecSeq == InitSeq /\ [][NextSeq]_vars

\* concurrent requests whose threads all keep running: the scheduler gives
\* every thread its turn and every HTTP attempt ends, with an answer, an error
\* or the timeout of HTTP_TIMEOUT seconds, so a thread that can take its next
\* step takes it
LiveChains == {3}
InitLive ==
  /\ InitCommon
  /\ probe = NoProbe
  /\ chain \in LiveChains
  /\ fuel = [calls |-> MaxLiveCalls, ticks |-> 0, by |-> {TickSec},
             faults |-> MaxLiveFaults, meter |-> {1}]

\* the steps of compute_api_payload after the pair is resolved (lines 220-236):
\* each waits for nothing but its own fetches and conversions
Collects(t) == Supply(t) \/ Staked(t) \/ CommunityPool(t) \/ ComputeReturn(t)
Collecting(t) == pc[t] \in {"supply", "staked", "community", "build"}

\* every other step of a request
Proceeds(t) ==
  \/ Route(t)
  \/ GcpNow(t) \/ GcpData(t) \/ GcpTs(t) \/ GcpReturnCached(t) \/ GcpCommit(t)
  \/ DetNow(t) \/ DetTs(t) \/ DetReadBase(t) \/ DetReadDecimals(t)
  \/ DetBaseline0(t) \/ DetBaseline1(t)
  \/ DetStaking(t) \/ DetMint(t) \/ DetMetadata(t) \/ DetCommit(t)
  \/ Respond(t) \/ Finish(t)

\* weak fairness of Collects(t), by its definition
\*   WF_v(A) == []<>~(ENABLED <<A>>_v) \/ []<><<A>>_v
\* where ENABLED <<Collects(t)>>_vars is Collecting(t): at each of the four
\* positions the step has an outcome without a fault and changes pc[t]
FairCollects(t) == []<>~Collecting(t) \/ []<><<Collects(t)>>_vars

SpecLive ==
  /\ InitLive /\ [][Next]_vars
  /\ \A t \in Threads : WF_vars(Proceeds(t)) /\ FairCollects(t)

(***************************************************************************)
(* The functions on their own: an input is drawn, the function is applied  *)
(* to it once, and its result is kept next to the input.  The server is    *)
(* idle meanwhile.                                                         *)
(***************************************************************************)
Ask(fn, arg) == [fn |-> fn, arg |-> arg, src |-> None, out |-> None]
Asked(fn) == probe.fn = fn /\ probe.out = None
Answered(fn) == probe.fn = fn /\ probe.out # None
Answer(v) == probe' = [probe EXCEPT !.out = Some(v)]
Idle ==
  UNCHANGED <<clock, chain, _api_cache, _denom_cache, pc, loc, resp, fuel,
              denom_commits>>

\* what one HTTP attempt does: it raises, or it decodes to one of two answers
AttemptOutcomes == {None, Some("j1"), Some("j2")}
FetchInputs == [1..(RETRIES + 1) -> AttemptOutcomes]

\* _fetch_json(url)
ApplyFetchJson ==
  /\ Asked("_fetch_json")
  /\ Answer(_fetch_json(probe.arg))
  /\ Idle

\* the states of the bank module: the supply listings of the scenarios, and
\* one that holds no coin of the token
SupplyListings ==
  {Chains[c].supply : c \in 1..Len(Chains)} \cup {<<Coin("x", "7")>>}
SupplyBases == {"ul1", "ub"}
\* what by_denom may answer when it answers: the coin in each of the shapes,
\* or a coin whose amount is no number
DirectAnswers(supply, base) ==
  {SupplyJson(sh, ByDenom(supply, base)) :
     sh \in {"coin", "noamount", "nested", "notdict"}}
    \cup {SupplyJson("coin", Coin(base, "n/a"))}
SupplyInputs ==
  UNION {{[base |-> b, supply |-> sup, nfail |-> n, direct |-> d, all |-> o] :
            n \in 0..(RETRIES + 1), d \in DirectAnswers(sup, b),
            o \in FetchOutcomes} :
         b \in SupplyBases, sup \in SupplyListings}
\* the two fetches of _get_supply_raw as the input decides them
DirectFetch(a) == _fetch_json(Attempts(a.nfail, a.direct))
AllFetch(a) == _fetch_json(Attempts(a.all.nfail, [bad |-> a.all.bad, supply |-> a.supply]))

\* _get_supply_raw(base_denom)
ApplyGetSupplyRaw ==
  /\ Asked("_get_supply_raw")
  /\ Answer(_get_supply_raw(probe.arg.base, DirectFetch(probe.arg), AllFetch(probe.arg)))
  /\ Idle

\* a node with a supply of 1000 tokens of 18 decimals, 250 of them staked
EndToEnd ==
  [supply |-> <<Coin("ul1", "1000000000000000000000")>>,
   bonded_tokens |-> "200000000000000000000",
   not_bonded_tokens |-> "50000000000000000000",
   community_pool |-> <<Coin("ul1", "3.5")>>]
Upstreams ==
  {EndToEnd} \cup
  {[supply |-> Chains[c].supply, bonded_tokens |-> Chains[c].bonded_tokens,
    not_bonded_tokens |-> Chains[c].not_bonded_tokens,
    community_pool |-> Chains[c].community_pool] : c \in 1..Len(Chains)}
\* what _detect_base_denom_and_decimals may have returned
DenomPairs == {<<"ul1", DEFAULT_DECIMALS>>, <<"ub", 6>>, <<"UM", 6>>, <<"ul1", 0>>}
PayloadInputs ==
  {[base |-> d[1], decimals |-> d[2], up |-> u] : d \in DenomPairs, u \in Upstreams}

\* lines 220-236 when every fetch is answered at the first attempt: the
\* payload, or None when a callee raised
compute_api_payload(base, decimals, up) ==
  LET Got(v) == _fetch_json(Attempts(0, v))
      s == _get_supply_raw(base,
                           Got(SupplyJson("coin", ByDenom(up.supply, base))),
                           Got([bad |-> FALSE, supply |-> up.supply]))
      k == _get_total_staked_raw(
             Got([bad |-> FALSE, bonded_tokens |-> up.bonded_tokens,
                  not_bonded_tokens |-> up.not_bonded_tokens]))
      c == _get_community_pool_scaled18(
             base, Got([bad |-> FALSE, community_pool |-> up.community_pool]))
  IN  IF s.raised \/ k.raised \/ c.raised THEN None
      ELSE Some(BuildPayload(s.val, k.val, c.val, decimals))

\* compute_api_payload() after the denom pair is resolved
ApplyComputePayload ==
  /\ Asked("compute_api_payload")
  /\ Answer(compute_api_payload(probe.arg.base, probe.arg.decimals, probe.arg.up))
  /\ Idle

\* decimal strings [-]digits[.digits] of at most 18 fractional digits
Wholes == {"0", "7", "12", "007", "100"}
Fractions ==
  {"", ".0", ".5", ".34", ".50", ".05", ".000000000000000001",
   ".123456789012345678"}
DecStrings == {sg \o w \o f : sg \in {"", "-"}, w \in Wholes, f \in Fractions}

\* _parse_dec_to_scaled18(dec_str)
ApplyParseDec ==
  /\ Asked("_parse_dec_to_scaled18")
  /\ Answer(_parse_dec_to_scaled18(probe.arg))
  /\ Idle

FormatArgs(a, d, m) == [amount_int |-> a, decimals |-> d, max_frac |-> m]

\* the scaled integer a parse returned is handed to _format_units at the
\* scale of the parse; src keeps the string it was parsed from
FormatParsed ==
  /\ Answered("_parse_dec_to_scaled18")
  /\ probe' = [Ask("_format_units", FormatArgs(probe.out[1], 18, 18))
                 EXCEPT !.src = Some(probe.arg)]
  /\ Idle

\* _format_units(amount_int, decimals, max_frac)
ApplyFormatUnits ==
  /\ Asked("_format_units")
  /\ Answer(_format_units(probe.arg.amount_int, probe.arg.decimals, probe.arg.max_frac))
  /\ Idle

\* scaled integers of both signs, scales and fraction limits around them
FormatAmounts ==
  {MkInt(neg, ds) : neg \in BOOLEAN,
                    ds \in {"0", "1", "5", "50", "99", "100", "105", "500",
                            "1234", "12340", "100000"}}
FormatInputs ==
  {FormatArgs(a, d, m) : a \in FormatAmounts, d \in 0..4, m \in 0..5}

ProbeInputs ==
  {Ask("_fetch_json", a) : a \in FetchInputs}
    \cup {Ask("_format_units", a) : a \in FormatInputs}
    \cup {Ask("_parse_dec_to_scaled18", a) : a \in DecStrings}
    \cup {Ask("compute_api_payload", a) : a \in PayloadInputs}
    \cup {Ask("_get_supply_raw", a) : a \in SupplyInputs}

InitPure ==
  /\ InitCommon
  /\ chain = 1
  /\ fuel = [calls |-> 0, ticks |-> 0, by |-> {}, faults |-> 0, meter |-> {}]
  /\ probe \in ProbeInputs
NextPure ==
  \/ ApplyFetchJson
  \/ ApplyGetSupplyRaw
  \/ ApplyComputePayload
  \/ ApplyParseDec
  \/ FormatParsed
  \/ ApplyFormatUnits
SpecPure == InitPure /\ [][NextPure]_vars

(***************************************************************************)
(* Properties of PayloadCache (get_cached_payload)                         *)
(***************************************************************************)
\* a thread is inside compute_api_payload (called at line 243)
Computing(t) ==
  pc[t] \in {"det_now", "det_ts", "det_rb", "det_rd", "det_b0", "det_b1",
             "det_staking", "det_mint", "det_meta", "det_commit",
             "supply", "staked", "community", "build"}

\* a thread is inside the resolution of lines 130-180
Resolving(t) ==
  pc[t] \in {"det_b0", "det_b1", "det_staking", "det_mint", "det_meta", "det_commit"}

\* the call of thread t found a payload whose ts is less than CACHE_TTL_SEC
\* before the time the call read
HitCase(t) ==
  /\ loc[t].pre # None
  /\ loc[t].pre[1].data # None
  /\ loc[t].now - loc[t].pre[1].ts < CACHE_TTL_SEC

\* C1: with one request after the other, a call that reads a time less than
\* 60 s after the ts of the cached payload never enters compute_api_payload
\* (so it fetches nothing and no recomputation starts), leaves _api_cache as it
\* found it, value and ts, and returns the cached payload.
C1_HitWithinTtl ==
  \A t \in Threads :
    HitCase(t) =>
      /\ pc[t] \in {"gcp_data", "gcp_ts", "gcp_ret", "respond"}
      /\ ~Computing(t)
      /\ _api_cache = loc[t].pre[1]
      /\ pc[t] = "respond" =>
           /\ loc[t].ret = "cached"
           /\ loc[t].payload = loc[t].pre[1].data

\* a later call, 30 s after the computation, has returned the cached payload
C1_LaterCallServedFromCache ==
  \E t \in Threads :
    /\ HitCase(t)
    /\ pc[t] = "respond"
    /\ loc[t].ret = "cached"
    /\ loc[t].now = loc[t].pre[1].ts + TickSec

\* C2: with one request after the other, when compute_api_payload raises,
\* get_cached_payload raises to its caller, returns no payload, and _api_cache
\* is the entry the call found: the same data and the same ts.
C2_FailedRefreshKeepsEntry ==
  \A t \in Threads :
    loc[t].err # "-" =>
      /\ pc[t] = "respond"
      /\ loc[t].ret = "raised"
      /\ loc[t].payload = None
      /\ _api_cache = loc[t].pre[1]

\* the refresh of an expired payload has failed
C2_RefreshOfExpiredEntryFailed ==
  \E t \in Threads :
    /\ loc[t].err # "-"
    /\ loc[t].pre[1].data # None
    /\ loc[t].now - loc[t].pre[1].ts >= CACHE_TTL_SEC

\* C3: a payload that get_cached_payload returns from the cache (line 241)
\* comes from an entry whose ts is less than 60 s before the time the call
\* read at line 239.
C3_ServedEntryIsFresh ==
  \A t \in Threads :
    loc[t].ret = "cached" => loc[t].now - loc[t].read_ts < CACHE_TTL_SEC

\* C4: no two request threads are inside compute_api_payload at once, and no
\* two are inside the resolution of the denom at once.
C4_SingleFlight ==
  \A t, u \in Threads :
    t # u => /\ ~(Computing(t) /\ Computing(u))
             /\ ~(Resolving(t) /\ Resolving(u))

\* C5: the (base_denom, decimals) pair read from _denom_cache at line 128 is
\* a pair that _denom_cache held at one time, and the payload returned at line
\* 241 is the data of the entry whose ts passed the test of line 240.
C5_NoTornRead ==
  \A t \in Threads :
    /\ loc[t].origin = "cached" =>
         <<loc[t].base, loc[t].dec[1]>> \in denom_commits
    /\ loc[t].ret = "cached" =>
         /\ loc[t].payload = loc[t].seen[1].data
         /\ loc[t].read_ts = loc[t].seen[1].ts

(***************************************************************************)
(* Properties of compute_api_payload                                       *)
(***************************************************************************)
PayloadFields ==
  {"circulating_supply", "circulating_supply_raw", "community_pool", "total_staked"}

Complete(p) == DOMAIN p = PayloadFields /\ \A k \in PayloadFields : p[k] # ""

\* C6: with one request after the other, a request whose staking-pool fetch
\* failed after its retries ends in the exception, with no payload returned
\* and _api_cache as the call found it; and every payload, returned or
\* cached, has the four fields, a computed one only in a request none of
\* whose calls raised.
C6_WholePayloadOrFailure ==
  /\ \A t \in Threads :
       /\ loc[t].down # "-" =>
            /\ pc[t] = "respond"
            /\ loc[t].ret = "raised"
            /\ loc[t].payload = None
            /\ _api_cache = loc[t].pre[1]
       /\ loc[t].payload # None =>
            /\ Complete(loc[t].payload[1])
            /\ loc[t].err = "-"
  /\ _api_cache.data # None => Complete(_api_cache.data[1])

\* the staking-pool fetch failed while a payload was cached
C6_PoolDownWithCachedPayload ==
  \E t \in Threads :
    /\ loc[t].down # "-"
    /\ loc[t].ret = "raised"
    /\ loc[t].pre[1].data # None

(***************************************************************************)
(* Properties of DenomResolver (_detect_base_denom_and_decimals)           *)
(***************************************************************************)
\* one step of thread t through the three queries and the commit
ResolverStep(t) ==
  /\ pc[t] = "det_staking" /\ pc'[t] # pc[t] =>
       /\ pc'[t] = "det_mint"
       /\ loc'[t].sp_st = "raised" =>
            loc'[t].base = loc[t].base /\ loc'[t].dec = loc[t].dec
  /\ pc[t] = "det_mint" /\ pc'[t] # pc[t] =>
       /\ pc'[t] = "det_meta"
       /\ loc'[t].mp_st = "raised" =>
            loc'[t].base = loc[t].base /\ loc'[t].dec = loc[t].dec
  /\ pc[t] = "det_meta" /\ pc'[t] # pc[t] =>
       /\ pc'[t] = "det_commit"
       /\ loc'[t].meta_st = "raised" =>
            loc'[t].base = loc[t].base /\ loc'[t].dec = loc[t].dec
  /\ pc[t] = "det_commit" /\ pc'[t] # pc[t] =>
       /\ pc'[t] = "supply"
       /\ loc'[t].base = loc[t].base /\ loc'[t].dec = loc[t].dec
       /\ _denom_cache'.base_denom = loc[t].base
       /\ _denom_cache'.decimals = loc[t].dec[1]
       /\ _denom_cache'.ts = loc[t].dnow

\* C7: whichever of the staking query, the mint query and the metadata
\* listing fail, the resolution goes on to the next step with base and dec
\* as they were before the failing step, and ends by storing the pair in
\* _denom_cache and returning it.
C7_ResolverIsBestEffort == [][\A t \in Threads : ResolverStep(t)]_vars

AllStepsRaised(t) ==
  /\ pc[t] = "det_commit"
  /\ loc[t].sp_st = "raised"
  /\ loc[t].mp_st = "raised"
  /\ loc[t].meta_st = "raised"

\* all three steps of a resolution have failed, the commit is next
C7_AllThreeStepsFailed == \E t \in Threads : AllStepsRaised(t)

\* C8: a resolution in which all three steps fail commits the pair that
\* _denom_cache held when it started, whatever that pair is.
C8_FailedStepsKeepCachedPair ==
  \A t \in Threads :
    AllStepsRaised(t) =>
      /\ loc[t].base = loc[t].base0
      /\ loc[t].dec = loc[t].dec0

\* the base denom the priority mint > bond > cached yields for thread t
PriorityBase(t) ==
  IF loc[t].mp_st = "ok" /\ Chains[chain].mint_denom # ""
  THEN Chains[chain].mint_denom
  ELSE IF loc[t].sp_st = "ok" /\ Chains[chain].bond_denom # ""
  THEN Chains[chain].bond_denom
  ELSE loc[t].base0

\* C9: after the staking and the mint query, base is the mint_denom if the
\* mint query returned a non-empty one, otherwise the bond_denom if the
\* staking query returned a non-empty one, otherwise the cached base_denom.
C9_BaseDenomPriority ==
  \A t \in Threads :
    pc[t] \in {"det_meta", "det_commit"} => loc[t].base = PriorityBase(t)

\* both queries answered, with different denoms, and base is the mint denom
C9_MintWinsOverBond ==
  \E t \in Threads :
    /\ pc[t] = "det_commit"
    /\ loc[t].sp_st = "ok" /\ loc[t].mp_st = "ok"
    /\ Chains[chain].bond_denom # ""
    /\ Chains[chain].mint_denom # ""
    /\ Chains[chain].bond_denom # Chains[chain].mint_denom
    /\ loc[t].base = Chains[chain].mint_denom

RECURSIVE KeyAt(_, _)
\* the pagination key of the i-th page request of a listing
KeyAt(pages, i) == IF i <= 1 THEN "" ELSE pages[KeyAt(pages, i - 1)].next_key

\* the i-th page of the listing holds a record that matches base
HasMatch(pages, i, base) ==
  FindMeta(pages[KeyAt(pages, i)].metadatas, base) # None

\* C10: the pagination requests at most 30 pages; when no request fails it
\* stops at the first page with a match or with an empty next_key, and at the
\* 30th page otherwise.
C10_PaginationBounded ==
  \A t \in Threads :
    /\ loc[t].npages <= PAGE_CAP
    /\ pc[t] = "det_commit" /\ loc[t].meta_st # "raised" =>
         LET n == loc[t].npages
             pages == Chains[chain].pages
         IN  /\ n >= 1
             /\ \A i \in 1..(n - 1) :
                  /\ ~HasMatch(pages, i, loc[t].base)
                  /\ KeyAt(pages, i + 1) # ""
             /\ loc[t].meta_st = "found" <=> HasMatch(pages, n, loc[t].base)
             /\ loc[t].meta_st = "none" =>
                  n = PAGE_CAP \/ KeyAt(pages, n + 1) = ""

\* a cursor that never ends and no match: the loop stopped at the cap
C10_StoppedAtCap ==
  \E t \in Threads :
    /\ pc[t] = "det_commit"
    /\ loc[t].meta_st = "none"
    /\ loc[t].npages = PAGE_CAP
    /\ KeyAt(Chains[chain].pages, PAGE_CAP + 1) # ""

(***************************************************************************)
(* Properties of HttpFetcher (_fetch_json)                                 *)
(***************************************************************************)
\* C11: a call makes at most 2 attempts; it returns the answer of the first
\* attempt that succeeds and makes no attempt after it; it sleeps exactly once,
\* between a failed first attempt and the second one; when the second attempt
\* fails too the call raises and returns nothing
C11_OneRetryThenRaise ==
  Answered("_fetch_json") =>
    LET att == probe.arg
        r == probe.out[1]
    IN  /\ r.attempts <= 2
        /\ att[1] # None =>
              r.ok /\ r.val = att[1] /\ r.attempts = 1 /\ r.sleeps = 0
        /\ att[1] = None /\ att[2] # None =>
              r.ok /\ r.val = att[2] /\ r.attempts = 2 /\ r.sleeps = 1
        /\ att[1] = None /\ att[2] = None =>
              ~r.ok /\ r.val = None /\ r.attempts = 2 /\ r.sleeps = 1

\* a call whose two attempts failed has returned to its caller
C11_BothAttemptsFailed ==
  Answered("_fetch_json") /\ probe.arg[1] = None /\ probe.arg[2] = None

(***************************************************************************)
(* Properties of SupplyAggregator (_get_supply_raw)                        *)
(***************************************************************************)
\* the direct query failed: no attempt succeeded, or the answer has no amount
\* field, or the field holds no number
DirectFailed(a) ==
  \/ a.nfail > RETRIES
  \/ a.direct.shape # "coin"
  \/ ~IntParses(a.direct.amount)

\* C12: whenever the direct by_denom query fails, also with an answer that
\* has a missing or malformed amount field, and the full supply can be listed,
\* the value returned is the amount of the first entry of the listing whose
\* denom matches the base denom, and zero when none matches
C12_FallbackOnAnyDirectFailure ==
  Answered("_get_supply_raw") /\ DirectFailed(probe.arg) /\ ~IsFault(probe.arg.all) =>
    LET scan == ScanSupply(probe.arg.supply, probe.arg.base)
        r == probe.out[1]
    IN  r.raised = scan.raised /\ r.val = scan.val

\* what the direct path returns for an input when by_denom answers at once
\* with the coin the bank module holds
DirectPath(a) ==
  _get_supply_raw(a.base,
                  _fetch_json(Attempts(0, SupplyJson("coin", ByDenom(a.supply, a.base)))),
                  AllFetch(a))

\* C13: over one state of the bank module, the amount the full-supply scan
\* returns is the amount the direct by_denom path returns for the same base
\* denom, also when entries under an alias denom precede the base denom's
\* entry in the listing
C13_ScanEqualsDirect ==
  Answered("_get_supply_raw") /\ probe.out[1].path = "scan" /\ ~probe.out[1].raised =>
    /\ DirectPath(probe.arg).path = "direct"
    /\ probe.out[1].val = DirectPath(probe.arg).val

(***************************************************************************)
(* Properties of compute_api_payload                                       *)
(***************************************************************************)
\* C14: for bond denom "ul1" with 18 decimals, a supply of
\* 1000000000000000000000, 200000000000000000000 bonded and
\* 50000000000000000000 not bonded, and a community pool of 3.5 ul1, the
\* payload is circulating_supply "1000", circulating_supply_raw
\* "1000000000000000000000", total_staked "250" and community_pool
\* "0.0000000000000000035": the pool keeps all its digits at scale 36
C14_EndToEndPayload ==
  /\ Answered("compute_api_payload")
  /\ probe.arg = [base |-> "ul1", decimals |-> 18, up |-> EndToEnd]
  => probe.out[1] =
       Some([circulating_supply |-> "1000",
             circulating_supply_raw |-> "1000000000000000000000",
             total_staked |-> "250",
             community_pool |-> "0.0000000000000000035"])

(***************************************************************************)
(* Properties of DecimalCodec (_parse_dec_to_scaled18, _format_units)      *)
(***************************************************************************)
\* the canonical decimal string of the value of [-]digits[.digits]: no
\* leading zeros, no trailing fractional zeros, no point before an empty
\* fraction, no sign on zero
Canonical(str) ==
  LET neg == Head(str) = "-"
      body == IF neg THEN Tail(str) ELSE str
      dot == Find(body, ".")
      whole == StripLeadingZeros(IF dot = 0 THEN body ELSE SubSeq(body, 1, dot - 1))
      frac == RStripZeros(IF dot = 0 THEN "" ELSE SubSeq(body, dot + 1, Len(body)))
      zero == whole = "0" /\ frac = ""
  IN  (IF neg /\ ~zero THEN "-" ELSE "")
        \o whole \o (IF frac = "" THEN "" ELSE "." \o frac)

\* C15: a decimal string [-]digits[.digits] of at most 18 fractional digits,
\* parsed at scale 18 and formatted back at scale 18 with 18 fraction digits,
\* gives the canonical decimal string of the same value
C15_RoundTrip ==
  Answered("_format_units") /\ probe.src # None =>
    probe.out[1] = Canonical(probe.src[1])

\* "12.34" was parsed to 12340000000000000000 and formatted back to "12.34"
C15_TwelvePoint34 ==
  /\ Answered("_format_units")
  /\ probe.src = Some("12.34")
  /\ probe.arg.amount_int = MkInt(FALSE, "12340000000000000000")
  /\ probe.out = Some("12.34")

RECURSIVE ToNat(_)
\* the number a digit string writes
ToNat(ds) == IF ds = "" THEN 0 ELSE ToNat(Front(ds)) * 10 + DigitVal(Last(ds))

RECURSIVE NatStr(_)
\* the digits of a natural number
NatStr(n) == IF n < 10 THEN DigitChar(n) ELSE NatStr(n \div 10) \o DigitChar(n % 10)

RECURSIVE Pow10(_)
Pow10(k) == IF k <= 0 THEN 1 ELSE 10 * Pow10(k - 1)

\* digit i, counted from the left, of r written with scale digits
FracDigit(r, scale, i) == (r \div Pow10(scale - i)) % 10

RECURSIVE FracDigits(_, _, _)
\* the first n digits of r written with scale digits
FracDigits(r, scale, n) ==
  IF n = 0 THEN "" ELSE FracDigits(r, scale, n - 1) \o DigitChar(FracDigit(r, scale, n))

\* the truncated decimal writing of n / 10^scale with at most max_frac
\* fraction digits, by integer division and remainder
Truncated(neg, n, scale, max_frac) ==
  LET r == n % Pow10(scale)
      take == Min(scale, max_frac)
      nonzero == {i \in 1..take : FracDigit(r, scale, i) # 0}
      last == IF nonzero = {} THEN 0 ELSE CHOOSE i \in nonzero : \A j \in nonzero : j <= i
  IN  (IF neg THEN "-" ELSE "") \o NatStr(n \div Pow10(scale))
        \o (IF last = 0 THEN "" ELSE "." \o FracDigits(r, scale, last))

\* C19: for every integer amount and scale > 0 the output never rounds: its
\* whole part is |amount| div 10^scale, its fraction digits are the first
\* min(scale, max_frac) digits of |amount| mod 10^scale left-padded to scale
\* digits, with trailing zeros stripped and no point before an empty fraction,
\* and it starts with '-' exactly when the amount is negative
C19_FormatTruncates ==
  Answered("_format_units") /\ probe.src = None /\ probe.arg.decimals > 0 =>
    probe.out[1] = Truncated(probe.arg.amount_int.neg, ToNat(probe.arg.amount_int.mag),
                             probe.arg.decimals, probe.arg.max_frac)

\* -500 at scale 2 with 2 fraction digits was formatted to "-5"
C19_MinusFive ==
  /\ Answered("_format_units")
  /\ probe.arg = FormatArgs(MkInt(TRUE, "500"), 2, 2)
  /\ probe.out = Some("-5")

(***************************************************************************)
(* Properties of Handler.do_GET                                            *)
(***************************************************************************)
\* the request paths that name /api.json once the query string is ignored
ApiRequests == {"/api.json", "/api.json?x=1"}

\* what a response carries: a 200 the whole payload and no error, a 503 an
\* error message and no payload field, a 404 neither
WellFormed(r) ==
  \/ r = NoResponse
  \/ r.status = 404 /\ r.body = None /\ r.error = "-"
  \/ r.status = 200 /\ r.body # None /\ Complete(r.body[1]) /\ r.error = "-"
  \/ r.status = 503 /\ r.body = None /\ r.error # "-"

\* one step of the thread of a request, seen from its client
Served(t) ==
  \* the path decides between the 404 and the cache
  /\ pc[t] = "route" /\ pc'[t] # "route" /\ loc[t].path \notin ApiRequests =>
        /\ resp'[t] = [status |-> 404, body |-> None, error |-> "-"]
        /\ pc'[t] = "sent"
        /\ UNCHANGED <<clock, _api_cache, _denom_cache, denom_commits>>
        /\ fuel'.ticks = fuel.ticks /\ fuel'.faults = fuel.faults
  /\ pc[t] = "route" /\ pc'[t] # "route" /\ loc[t].path \in ApiRequests =>
        pc'[t] = "gcp_now" /\ resp'[t] = NoResponse
  \* a 404 is followed by the end of the request only
  /\ pc[t] = "sent" /\ pc'[t] # "sent" => pc'[t] = "idle"
  \* the outcome of get_cached_payload decides between the 200 and the 503
  /\ pc[t] = "respond" /\ pc'[t] # "respond" =>
        /\ pc'[t] = "sent"
        /\ resp'[t] = IF loc[t].ret = "raised"
                      THEN [status |-> 503, body |-> None, error |-> loc[t].err]
                      ELSE [status |-> 200, body |-> loc[t].payload, error |-> "-"]
  \* one response for each request: it is sent when the request has none yet
  /\ resp'[t] # resp[t] /\ resp'[t] # NoResponse =>
        resp[t] = NoResponse /\ pc[t] \in {"route", "respond"} /\ pc'[t] = "sent"
  /\ resp'[t] # resp[t] /\ resp'[t] = NoResponse => pc[t] = "sent" /\ pc'[t] = "idle"
  /\ (pc'[t] = "sent") = (resp'[t] # NoResponse)
  /\ WellFormed(resp'[t])

Querying(t) == pc[t] \in {"det_staking", "det_mint", "det_meta"}

\* one step of a thread inside _detect_base_denom_and_decimals
DenomStep(t) ==
  LET fresh == loc[t].dnow - _denom_cache.ts < DENOM_TTL_SEC
      moved == pc'[t] # pc[t]
  IN  \* the age of the entry decides between the cached pair and a resolve
      /\ pc[t] = "det_ts" /\ moved =>
            pc'[t] = (IF fresh THEN "det_rb" ELSE "det_b0")
      \* fresh: the cached pair is returned, the cache stays, nothing is asked
      /\ pc[t] \in {"det_rb", "det_rd"} /\ moved =>
            /\ fresh
            /\ UNCHANGED <<_denom_cache, fuel, clock>>
            /\ pc'[t] \in {"det_rd", "supply"}
      /\ pc[t] = "det_rd" /\ moved =>
            /\ loc'[t].base = _denom_cache.base_denom
            /\ loc'[t].dec = Some(_denom_cache.decimals)
            /\ loc'[t].origin = "cached"
      \* stale: each of the three steps is taken once and, failed or not, is
      \* followed by the next one and by the commit
      /\ pc[t] = "det_staking" /\ moved => pc'[t] = "det_mint"
      /\ pc[t] = "det_mint" /\ moved => pc'[t] = "det_meta"
      /\ pc[t] = "det_meta" /\ moved => pc'[t] = "det_commit"
      \* the commit stores the pair of the resolve under the current time
      /\ pc[t] = "det_commit" /\ moved =>
            /\ _denom_cache' = [ts |-> clock, base_denom |-> loc[t].base,
                                decimals |-> loc[t].dec[1]]
            /\ loc'[t].base = loc[t].base /\ loc'[t].dec = loc[t].dec
            /\ loc'[t].origin = "resolved"
            /\ pc'[t] = "supply"
      \* no query is made within 6 h of the time stored by a resolve
      /\ Querying(t)' => loc'[t].dnow - _denom_cache'.ts >= DENOM_TTL_SEC

C20_TsNeverDecreases == [][_api_cache'.ts >= _api_cache.ts]_vars

(***************************************************************************)
(* Termination of get_cached_payload                                       *)
(***************************************************************************)
\* C17: when every HTTP attempt ends, every call of get_cached_payload that
\* has started returns a payload or raises, whatever fails upstream and
\* whatever the other request threads do, and by then it has made at most 2
\* attempts for each of at most 2 + 30 denom queries, 2 supply queries, 1
\* staking-pool query and 1 community-pool query (the attempts are counted
\* for the metered thread, which runs the same code as any other)
C17_EveryCallEnds ==
  /\ [](\A t \in Threads : loc[t].tries <= 2 * ((2 + 30) + 2 + 1 + 1))
  /\ \A t \in Threads :
       (pc[t] = "gcp_now") ~> (pc[t] = "respond" /\ loc[t].ret # "-")

\* a call has returned its payload after 72 attempts: 30 metadata pages and
\* every other query answered at the second attempt only, the by_denom query
\* not at all
C17_AllAttemptsUsed ==
  \E t \in Threads :
    pc[t] = "respond" /\ loc[t].ret = "computed" /\ loc[t].tries = 72

=============================================================================
